---- MODULE Spec2Model ----
(***************************************************************************)
(* Key mapping engine of vimb (src/src/map.c): the MapTable (map.list),    *)
(* the pending key queue (map.queue, map.qlen, map.resolved), the          *)
(* disambiguation timer (map.timout_id) and the resolver map_handle_keys;  *)
(* the encoding of key events (map_keypress) and of key labels             *)
(* (convert_keys); the ex command line (src/src/ex.c): the command table,  *)
(* the parser and ex_run_string.                                           *)
(*                                                                         *)
(* Spec is the resolver with its table and timer, ExSpec runs command      *)
(* lines through ex_run_string, KeySpec presses keys against a rule        *)
(* defined by a label.                                                     *)
(*                                                                         *)
(* Bytes are integers, byte strings are sequences of integers.  The index  *)
(* k of a C array is the index k + 1 of the sequence that models it.       *)
(*                                                                         *)
(* The program is single threaded: map_insert, map_delete, a batch of keys *)
(* and the expiry of the timer start from the main loop, and a running     *)
(* map_handle_keys is left only by its return.  The downstream consumer    *)
(* mode_handle_key is not part of map.c; of what it may do, the model      *)
(* keeps the switch of the active mode and the setting of FLAG_NOMAP.      *)
(***************************************************************************)
EXTENDS Integers, Sequences, FiniteSets, TLC

\* capacity of map.queue (config.h gives the real value; any value > 0 does)
MAP_QUEUE_SIZE == 4
\* most rules the table holds in the model
MaxMaps == 2
\* most bytes one call of map_handle_keys is given in the model
MaxKeyLen == 2
\* `sent` keeps the first MaxSent units an invocation forwards
MaxSent == 5

\* most bytes of the argument texts the model writes after a command name
MaxArgLen == 3
\* most piped commands of a line the model builds from segments
MaxSegs == 3

\* most bytes of the strings the model hands to map_handle_string
MaxStrLen == 5

\* the introducer byte of the 3 byte encoding of special keys
CSI == 155

Min(x, y) == IF x < y THEN x ELSE y

\* vb.mode->id of the modes the model switches between
Modes == {"n", "i"}

\* the bytes the model feeds
Keys == {97, CSI}

\* new Map (map.c:302-307)
Map(in, mapped, m) ==
    [in |-> in, inlen |-> Len(in), mapped |-> mapped, mappedlen |-> Len(mapped), mode |-> m]

VARIABLES
    list,       \* map.list, newest rule first
    queue,      \* map.queue[0 .. map.qlen - 1]
    resolved,   \* map.resolved
    timout_id,  \* map.timout_id, 0 when never set
    sources,    \* ids of the timeout sources attached to the GLib main loop
    mode,       \* vb.mode->id
    flags,      \* FLAG_NOMAP in the flags of each mode
    pc,         \* "main": in the main loop, "loop": at the head of while (true),
                \* "ret": the called function has returned, "fault": wrote past map.queue
    call,       \* the running call: operation, arguments, state at entry
    match,      \* the local Map *match: <<>> is NULL, <<m>> points to m
    sent,       \* the units handed to mode_handle_key by the running invocation
    ret,        \* the value returned to the caller
    ex,         \* the running ex_run_string: input, cursor, ExArg, dispatched commands
    kp,         \* the last key event map_keypress got and the string it made of it
    cv          \* the last string map_handle_string got, what convert_keys made of it

vars == <<list, queue, resolved, timout_id, sources, mode, flags, pc, call, match, sent, ret,
          ex, kp, cv>>

\* map.qlen
qlen == Len(queue)

\* no key was pressed
NoKey == [pressed |-> FALSE, keyval |-> [sym |-> "VoidSymbol", uc |-> 0], state |-> {},
          string |-> <<>>]

\* no string was handled
NoString == [handled |-> FALSE, in |-> <<>>, str |-> <<>>, len |-> 0]

NoCall == [op |-> "none", keys |-> <<>>, use_map |-> FALSE, timeout |-> FALSE,
           source |-> 0, q0 |-> 0, mode0 |-> "n", nomap0 |-> FALSE]

(***************************************************************************)
(* convert_keys and convert_keylabel: labels such as <CR> or <C-x> in the  *)
(* text of a mapping to the raw bytes                                      *)
(***************************************************************************)

\* the table keys[] of convert_keylabel: label, raw bytes
keylabels ==
    << [label |-> <<60, 67, 82, 62>>,                    ch |-> <<10>>],            \* <CR>
       [label |-> <<60, 84, 97, 98, 62>>,                ch |-> <<9>>],             \* <Tab>
       [label |-> <<60, 83, 45, 84, 97, 98, 62>>,        ch |-> <<CSI, 107, 66>>],  \* <S-Tab>
       [label |-> <<60, 69, 115, 99, 62>>,               ch |-> <<27>>],            \* <Esc>
       [label |-> <<60, 85, 112, 62>>,                   ch |-> <<CSI, 107, 117>>], \* <Up>
       [label |-> <<60, 68, 111, 119, 110, 62>>,         ch |-> <<CSI, 107, 100>>], \* <Down>
       [label |-> <<60, 76, 101, 102, 116, 62>>,         ch |-> <<CSI, 107, 108>>], \* <Left>
       [label |-> <<60, 82, 105, 103, 104, 116, 62>>,    ch |-> <<CSI, 107, 114>>], \* <Right>
       [label |-> <<60, 70, 49, 62>>,                    ch |-> <<CSI, 107, 49>>],  \* <F1>
       [label |-> <<60, 70, 50, 62>>,                    ch |-> <<CSI, 107, 50>>],  \* <F2>
       [label |-> <<60, 70, 51, 62>>,                    ch |-> <<CSI, 107, 51>>],  \* <F3>
       [label |-> <<60, 70, 52, 62>>,                    ch |-> <<CSI, 107, 52>>],  \* <F4>
       [label |-> <<60, 70, 53, 62>>,                    ch |-> <<CSI, 107, 53>>],  \* <F5>
       [label |-> <<60, 70, 54, 62>>,                    ch |-> <<CSI, 107, 54>>],  \* <F6>
       [label |-> <<60, 70, 55, 62>>,                    ch |-> <<CSI, 107, 55>>],  \* <F7>
       [label |-> <<60, 70, 56, 62>>,                    ch |-> <<CSI, 107, 56>>],  \* <F8>
       [label |-> <<60, 70, 57, 62>>,                    ch |-> <<CSI, 107, 57>>],  \* <F9>
       [label |-> <<60, 70, 49, 48, 62>>,                ch |-> <<CSI, 107, 59>>],  \* <F10>
       [label |-> <<60, 70, 49, 49, 62>>,                ch |-> <<CSI, 70, 49>>],   \* <F11>
       [label |-> <<60, 70, 49, 50, 62>>,                ch |-> <<CSI, 70, 50>>] >> \* <F12>

\* the raw bytes of the label in[p .. p + inlen - 1], <<>> (len 0) when it is unknown
RECURSIVE keylabel_scan(_, _)
keylabel_scan(tok, i) ==
    IF i > Len(keylabels) THEN <<>>
    ELSE IF Len(tok) = Len(keylabels[i].label) /\ tok = keylabels[i].label
         THEN keylabels[i].ch
         ELSE keylabel_scan(tok, i + 1)

convert_keylabel(tok) == keylabel_scan(tok, 1)

\* the do-while of convert_keys that looks for the > closing the < at in[p]
RECURSIVE symlen_scan(_, _, _)
symlen_scan(in, p, symlen) ==
    IF p + symlen > Len(in) \/ in[p + symlen] = 60 \/ in[p + symlen] = 32
    THEN symlen
    ELSE IF in[p + symlen] # 62
         THEN symlen_scan(in, p, symlen + 1)
         ELSE symlen + 1

\* the bytes convert_keys writes for the token in[p .. p + symlen - 1]: the raw bytes
\* of a known label, the chars as they are when no known label was found
convert_token_drop(in, p, symlen) ==
    IF symlen = 5 /\ in[p + 4] = 62 /\ in[p + 2] = 45 /\ in[p + 1] = 67
       /\ ((in[p + 3] >= 65 /\ in[p + 3] <= 93) \/ (in[p + 3] >= 97 /\ in[p + 3] <= 122))
    THEN <<in[p + 3] % 32>>
    ELSE convert_keylabel(SubSeq(in, p, p + symlen - 1))
convert_token(in, p, symlen) ==
    LET tok == SubSeq(in, p, p + symlen - 1)
        ctrl == IF symlen = 5 /\ in[p + 2] = 45 /\ in[p + 1] = 67
                THEN IF in[p + 3] >= 65 /\ in[p + 3] <= 93 THEN <<in[p + 3] - 64>>
                     ELSE IF in[p + 3] >= 97 /\ in[p + 3] <= 122 THEN <<in[p + 3] - 96>>
                     ELSE <<>>
                ELSE <<>>
        raw == IF in[p + symlen - 1] = 62
               THEN IF ctrl # <<>> THEN ctrl ELSE convert_keylabel(tok)
               ELSE <<>>
    IN  IF raw # <<>> THEN raw ELSE tok

RECURSIVE convert_from(_, _, _)
convert_from(in, p, str) ==
    IF p > Len(in) THEN str
    ELSE IF in[p] # 60
         THEN convert_from(in, p + 1, Append(str, in[p]))
         ELSE LET symlen == symlen_scan(in, p, 1)
              IN  convert_from(in, p + symlen, str \o convert_token(in, p, symlen))

convert_keys(in) == convert_from(in, 1, <<>>)

\* the fields chlen of keys[]
keylabel_chlen == <<1, 1, 3, 1, 3, 3, 3, 3, 3, 3, 3, 3, 3, 3, 3, 3, 3, 3, 3, 3>>

\* *len of convert_keylabel: the chlen of the entry of the label, 0 when it is unknown
RECURSIVE keylabel_len(_, _)
keylabel_len(tok, i) ==
    IF i > Len(keylabels) THEN 0
    ELSE IF Len(tok) = Len(keylabels[i].label) /\ tok = keylabels[i].label
         THEN keylabel_chlen[i]
         ELSE keylabel_len(tok, i + 1)

\* rawlen of convert_keys for the token in[p .. p + symlen - 1]
token_rawlen(in, p, symlen) ==
    LET ctrl == IF symlen = 5 /\ in[p + 2] = 45 /\ in[p + 1] = 67
                   /\ ((in[p + 3] >= 65 /\ in[p + 3] <= 93)
                       \/ (in[p + 3] >= 97 /\ in[p + 3] <= 122))
                THEN 1 ELSE 0
        rawlen == IF in[p + symlen - 1] = 62
                  THEN IF ctrl # 0 THEN ctrl
                       ELSE keylabel_len(SubSeq(in, p, p + symlen - 1), 1)
                  ELSE 0
    IN  IF rawlen # 0 THEN rawlen ELSE symlen

\* *len of convert_keys: 1 is added for a byte outside a token, rawlen for a token
RECURSIVE convert_len(_, _, _)
convert_len(in, p, len) ==
    IF p > Len(in) THEN len
    ELSE IF in[p] # 60
         THEN convert_len(in, p + 1, len + 1)
         ELSE LET symlen == symlen_scan(in, p, 1)
              IN  convert_len(in, p + symlen, len + token_rawlen(in, p, symlen))

(***************************************************************************)
(* The MapTable: map_insert, map_delete                                    *)
(***************************************************************************)

\* the mapping texts the model defines and deletes: in, mapped, mode
RuleSet ==
    { [in |-> <<97>>,     mapped |-> <<98>>,     mode |-> "n"],
      [in |-> <<97>>,     mapped |-> <<97, 97>>, mode |-> "n"],
      [in |-> <<97, 97>>, mapped |-> <<97>>,     mode |-> "n"],
      [in |-> <<97>>,     mapped |-> <<60, 67, 82, 62>>, mode |-> "i"],   \* a -> <CR>
      [in |-> [k \in 1..(MAP_QUEUE_SIZE + 1) |-> 97], mapped |-> <<98>>, mode |-> "n"] }

\* mapping texts whose replacement is longer or shorter than the input, holds a
\* special key, or is the input of another one: a -> <Up>, aa -> a, a -> bc, c -> d
SpliceRules ==
    { [in |-> <<97>>,     mapped |-> <<60, 85, 112, 62>>, mode |-> "n"],
      [in |-> <<97, 97>>, mapped |-> <<97>>,              mode |-> "n"],
      [in |-> <<97>>,     mapped |-> <<98, 99>>,          mode |-> "n"],
      [in |-> <<99>>,     mapped |-> <<100>>,             mode |-> "n"] }

\* g_slist_prepend of the new Map
map_insert_list(l, in, mapped, m) ==
    <<Map(convert_keys(in), convert_keys(mapped), m)>> \o l

\* remove only if the map's lhs matches the given key sequence
delete_matches_anymode(r, lhs, m) == r.inlen = Len(lhs) /\ r.in = lhs
delete_matches(r, lhs, m) == r.mode = m /\ r.inlen = Len(lhs) /\ r.in = lhs

\* the loop of map_delete: the index of the first rule with that mode and lhs, 0 if none
RECURSIVE map_delete_find(_, _, _, _)
map_delete_find(l, i, lhs, m) ==
    IF i > Len(l) THEN 0
    ELSE IF delete_matches(l[i], lhs, m)
         THEN i
         ELSE map_delete_find(l, i + 1, lhs, m)

\* g_slist_delete_link of the link at index i
delete_link(l, i) == SubSeq(l, 1, i - 1) \o SubSeq(l, i + 1, Len(l))

map_insert(in, mapped, m) ==
    /\ pc = "main"
    /\ Len(list) < MaxMaps
    /\ list' = map_insert_list(list, in, mapped, m)
    /\ pc' = "ret"
    /\ call' = [NoCall EXCEPT !.op = "map_insert", !.keys = in, !.mode0 = m]
    /\ ret' = "none"
    /\ UNCHANGED <<queue, resolved, timout_id, sources, mode, flags, match, sent, ex, kp, cv>>

map_delete(in, m) ==
    /\ pc = "main"
    /\ LET lhs == convert_keys(in)
           i   == map_delete_find(list, 1, lhs, m)
       IN  /\ list' = IF i > 0 THEN delete_link(list, i) ELSE list
           /\ ret' = IF i > 0 THEN "true" ELSE "false"
    /\ pc' = "ret"
    /\ call' = [NoCall EXCEPT !.op = "map_delete", !.keys = in, !.mode0 = m]
    /\ UNCHANGED <<queue, resolved, timout_id, sources, mode, flags, match, sent, ex, kp, cv>>

(***************************************************************************)
(* map_handle_keys, one action per stretch of code between two calls of    *)
(* the downstream consumer mode_handle_key                                 *)
(***************************************************************************)

\* the key batches the model feeds
KeySeqs == UNION { [1..n -> Keys] : n \in 1..MaxKeyLen }

\* g_timeout_add: the id of the new source, one no attached source has (GLib counts
\* its ids up; what the callers rely on is that no two attached sources share an id,
\* so the model takes the least free one)
new_source_id(srcs) ==
    CHOOSE i \in 1..(Cardinality(srcs) + 1) :
        /\ i \notin srcs
        /\ \A j \in 1..(i - 1) : j \in srcs

\* g_source_remove of the stored id, then g_timeout_add
restart_timeout_keep(srcs, tid) ==
    LET id == new_source_id(srcs)
    IN  [sources |-> srcs \cup {id}, timout_id |-> id]
restart_timeout(srcs, tid) ==
    LET left == IF tid # 0 THEN srcs \ {tid} ELSE srcs
        id   == new_source_id(left)
    IN  [sources |-> left \cup {id}, timout_id |-> id]

\* copy the keys onto the end of queue
RECURSIVE enqueue(_, _)
enqueue(q, keys) ==
    IF Len(q) < MAP_QUEUE_SIZE /\ Len(keys) > 0
    THEN enqueue(Append(q, Head(keys)), Tail(keys))
    ELSE q

\* !strncmp(s, q, n) for byte strings without NUL that hold n bytes each
strncmp_eq(s, q, n) == \A k \in 1..n : s[k] = q[k]

\* ignore maps for other modes: the rule is one of the active mode
for_mode_skip(r, md) == TRUE
for_mode_at_entry(r, md) == r.mode = call.mode0
for_mode(r, md) == r.mode = md

\* find ambiguous matches: the queue is a proper prefix of the input of the rule
is_ambiguous_timeout(r, q, timeout) ==
    r.inlen > Len(q) /\ strncmp_eq(r.in, q, Len(q))
is_ambiguous_offbyone(r, q, timeout) ==
    ~timeout /\ r.inlen > Len(q) + 1 /\ strncmp_eq(r.in, q, Len(q))
is_ambiguous(r, q, timeout) ==
    ~timeout /\ r.inlen > Len(q) /\ strncmp_eq(r.in, q, Len(q))

\* complete match or better/longer match than previous found
is_better_first(r, q, m) ==
    r.inlen <= Len(q) /\ strncmp_eq(r.in, q, r.inlen) /\ m = <<>>
is_better_last(r, q, m) ==
    r.inlen <= Len(q) /\ strncmp_eq(r.in, q, r.inlen) /\ (m = <<>> \/ m[1].inlen <= r.inlen)
is_better(r, q, m) ==
    r.inlen <= Len(q) /\ strncmp_eq(r.in, q, r.inlen) /\ (m = <<>> \/ m[1].inlen < r.inlen)

\* the for loop over map.list: counts the ambiguous rules, keeps the best match
RECURSIVE find_matches(_, _, _, _, _, _)
find_matches(l, q, md, timeout, ambiguous, m) ==
    IF l = <<>> THEN [ambiguous |-> ambiguous, match |-> m]
    ELSE LET r == Head(l) IN
         IF ~for_mode(r, md) THEN find_matches(Tail(l), q, md, timeout, ambiguous, m)
         ELSE find_matches(Tail(l), q, md, timeout,
                           IF is_ambiguous(r, q, timeout) THEN ambiguous + 1 ELSE ambiguous,
                           IF is_better(r, q, m) THEN <<r>> ELSE m)

\* match = NULL, ambiguous = 0, and the loop when use_map and FLAG_NOMAP allow it
try_maps(l, q, md, timeout, use_map, nomap) ==
    IF use_map /\ ~nomap
    THEN find_matches(l, q, md, timeout, 0, <<>>)
    ELSE [ambiguous |-> 0, match |-> <<>>]

\* make some space within the queue: queue[--i] = queue[--j] while j > inlen
RECURSIVE grow_shift(_, _, _, _)
grow_shift(buf, i, j, inlen) ==
    IF j > inlen
    THEN grow_shift([buf EXCEPT ![i] = buf[j]], i - 1, j - 1, inlen)
    ELSE buf

\* delete some keys: queue[i++] = queue[j++] while i < qlen
RECURSIVE shrink_shift(_, _, _, _)
shrink_shift(buf, i, j, n) ==
    IF i < n
    THEN shrink_shift([buf EXCEPT ![i + 1] = buf[j + 1]], i + 1, j + 1, n)
    ELSE buf

\* strncpy(map.queue, match->mapped, match->mappedlen)
copy_mapped_none(buf, mapped) == buf
copy_mapped(buf, mapped) ==
    [k \in 1..Len(buf) |-> IF k <= Len(mapped) THEN mapped[k] ELSE buf[k]]

\* the queue after the replacement of the matched chars by the mapped string.  buf is
\* the memory from map.queue on, as far as the code reads or writes it; the bytes
\* behind qlen are stale bytes (0 here), read by the loop that deletes keys
splice(q, m) ==
    LET n    == Len(q)
        span == n + (IF m.inlen < m.mappedlen THEN m.mappedlen - m.inlen
                     ELSE m.inlen - m.mappedlen)
        buf  == [k \in 1..span |-> IF k <= n THEN q[k] ELSE 0]
        moved == IF m.inlen < m.mappedlen
                 THEN grow_shift(buf, n + m.mappedlen - m.inlen, n, m.inlen)
                 ELSE IF m.inlen > m.mappedlen
                      THEN shrink_shift(buf, m.mappedlen, m.inlen, n)
                      ELSE buf
    IN  SubSeq(copy_mapped(moved, m.mapped), 1, n + m.mappedlen - m.inlen)

\* map.resolved after the replacement
resolved_after_mapped(m) == m.mappedlen
resolved_after(m) == IF m.inlen <= m.mappedlen THEN m.inlen ELSE m.mappedlen

\* the replacement writes map.queue[k] for some k >= MAP_QUEUE_SIZE
writes_past_queue(q, m) == Len(q) + m.mappedlen - m.inlen > MAP_QUEUE_SIZE

\* the length of the unit at the head of the queue: a CSI triplet or one byte
unit_len_one(q) == 1
unit_len(q) == IF q[1] = CSI /\ Len(q) >= 3 THEN 3 ELSE 1

\* entry of map_handle_keys up to while (true); source is the timer that runs
\* do_timeout, 0 for the other callers
map_handle_keys(keys, use_map, source) ==
    LET timeout == (Len(keys) = 0)
        t == IF ~timeout THEN restart_timeout(sources, timout_id)
             ELSE [sources |-> sources, timout_id |-> timout_id]
    IN  /\ pc = "main"
        /\ sources' = t.sources
        /\ timout_id' = t.timout_id
        /\ queue' = enqueue(queue, keys)
        /\ match' = <<>>
        /\ sent' = <<>>
        /\ ret' = "none"
        /\ call' = [op |-> "map_handle_keys", keys |-> keys, use_map |-> use_map,
                    timeout |-> timeout, source |-> source, q0 |-> qlen,
                    mode0 |-> mode, nomap0 |-> flags[mode]]
        /\ pc' = "loop"
        /\ UNCHANGED <<list, resolved, mode, flags, ex>>

\* map_keypress and map_handle_string hand a batch of keys to map_handle_keys
key_batch ==
    /\ \E keys \in KeySeqs, use_map \in BOOLEAN : map_handle_keys(keys, use_map, 0)
    /\ UNCHANGED <<kp, cv>>

\* the key batches long enough for the three bytes of a special key
LongSeqs == UNION { [1..n -> Keys] : n \in 1..(MaxKeyLen + 1) }

long_batch ==
    /\ \E keys \in LongSeqs, use_map \in BOOLEAN : map_handle_keys(keys, use_map, 0)
    /\ UNCHANGED <<kp, cv>>

\* a timeout source fires: do_timeout calls map_handle_keys("", 0, true)
do_timeout ==
    /\ \E id \in sources : map_handle_keys(<<>>, TRUE, id)
    /\ UNCHANGED <<kp, cv>>

\* the bytes of the strings handed to map_handle_string: < > space C - R
StrChars == {60, 62, 32, 67, 45, 82}

Strings == UNION { [1..n -> StrChars] : n \in 1..MaxStrLen }

\* map_handle_string: the keys are the first len bytes of what convert_keys returns,
\* a NUL terminated string (behind its bytes the model reads the NUL)
map_handle_string(str, use_map) ==
    LET keys == convert_keys(str)
        len  == convert_len(str, 1, 0)
    IN  /\ cv' = [handled |-> TRUE, in |-> str, str |-> keys, len |-> len]
        /\ map_handle_keys([k \in 1..len |-> IF k <= Len(keys) THEN keys[k] ELSE 0],
                           use_map, 0)
        /\ UNCHANGED kp

\* a string of keys is run, as keys typed or as keys not to be remapped
string_batch ==
    /\ pc = "main"
    /\ \E str \in Strings, use_map \in BOOLEAN : map_handle_string(str, use_map)

\* remove the nomap flag: vb.mode->flags &= ~FLAG_NOMAP
clear_nomap_keep(f, md) == f
clear_nomap(f, md) == [f EXCEPT ![md] = FALSE]

\* one round of while (map.resolved > 0): the head unit leaves the queue, FLAG_NOMAP
\* of the mode is removed, mode_handle_key gets the unit; the consumer may switch
\* the mode and may set FLAG_NOMAP of the mode it leaves active
send_key ==
    /\ pc = "loop"
    /\ resolved > 0
    /\ LET n == unit_len(queue) IN
        /\ resolved' = resolved - n
        /\ queue' = SubSeq(queue, n + 1, qlen)
        /\ sent' = IF Len(sent) < MaxSent THEN Append(sent, SubSeq(queue, 1, n)) ELSE sent
    /\ \E m2 \in Modes, nomap \in BOOLEAN :
        /\ mode' = m2
        /\ flags' = [clear_nomap(flags, mode) EXCEPT ![m2] = @ \/ nomap]
    /\ UNCHANGED <<list, timout_id, sources, pc, call, match, ret, ex, kp, cv>>

\* return match ? MAP_DONE : MAP_NOMATCH
drained_result_done(m) == "MAP_DONE"
drained_result(m) == IF m # <<>> THEN "MAP_DONE" ELSE "MAP_NOMATCH"

\* if (map.qlen == 0): all keys were processed
queue_drained ==
    /\ pc = "loop"
    /\ resolved <= 0
    /\ qlen = 0
    /\ resolved' = 0
    /\ ret' = drained_result(match)
    /\ pc' = "ret"
    /\ UNCHANGED <<list, queue, timout_id, sources, mode, flags, call, match, sent, ex, kp, cv>>

\* try to find matching maps; then wait, replace or resolve the first char
resolve ==
    /\ pc = "loop"
    /\ resolved <= 0
    /\ qlen > 0
    /\ LET r == try_maps(list, queue, mode, call.timeout, call.use_map, flags[mode]) IN
        /\ match' = r.match
        /\ IF r.ambiguous > 0
           THEN /\ ret' = "MAP_AMBIGUOUS"
                /\ pc' = "ret"
                /\ UNCHANGED <<queue, resolved>>
           ELSE IF r.match # <<>>
           THEN /\ queue' = splice(queue, r.match[1])
                /\ resolved' = resolved_after(r.match[1])
                /\ pc' = IF writes_past_queue(queue, r.match[1]) THEN "fault" ELSE "loop"
                /\ UNCHANGED ret
           ELSE /\ resolved' = 1
                /\ UNCHANGED <<queue, pc, ret>>
    /\ UNCHANGED <<list, timout_id, sources, mode, flags, call, sent, ex, kp, cv>>

\* the called function returns to the main loop; do_timeout returns false, which
\* removes its source
return_to_main ==
    /\ pc = "ret"
    /\ pc' = "main"
    /\ sources' = IF call.timeout THEN sources \ {call.source} ELSE sources
    /\ call' = NoCall
    /\ match' = <<>>
    /\ sent' = <<>>
    /\ ret' = "none"
    /\ cv' = NoString
    /\ UNCHANGED <<list, queue, resolved, timout_id, mode, flags, ex, kp>>

(***************************************************************************)
(* map_keypress: a key event (keyval, modifier state) to the string handed *)
(* to map_handle_keys.  A keyval is its GDK symbol and the code point      *)
(* gdk_keyval_to_unicode gives for it, 0 when it has none.                 *)
(***************************************************************************)

\* the control bytes of ascii.h as ex_keypress tells them: Tab is CTRL('I'), the key
\* that activates the input ("<nl> or <cr>") is '\n', Escape is CTRL('['), the key
\* that deletes the char before the cursor is CTRL('H')
KEY_TAB == 9
KEY_NL == 10
KEY_CR == 10
KEY_ESC == 27
KEY_BS == 8

special_keys ==
    << [state |-> {"SHIFT"}, keyval |-> "Tab",   one |-> 107, two |-> 66],
       [state |-> {},        keyval |-> "Up",    one |-> 107, two |-> 117],
       [state |-> {},        keyval |-> "Down",  one |-> 107, two |-> 100],
       [state |-> {},        keyval |-> "Left",  one |-> 107, two |-> 108],
       [state |-> {},        keyval |-> "Right", one |-> 107, two |-> 114],
       [state |-> {},        keyval |-> "F1",    one |-> 107, two |-> 49],
       [state |-> {},        keyval |-> "F2",    one |-> 107, two |-> 50],
       [state |-> {},        keyval |-> "F3",    one |-> 107, two |-> 51],
       [state |-> {},        keyval |-> "F4",    one |-> 107, two |-> 52],
       [state |-> {},        keyval |-> "F5",    one |-> 107, two |-> 53],
       [state |-> {},        keyval |-> "F6",    one |-> 107, two |-> 54],
       [state |-> {},        keyval |-> "F7",    one |-> 107, two |-> 55],
       [state |-> {},        keyval |-> "F8",    one |-> 107, two |-> 56],
       [state |-> {},        keyval |-> "F9",    one |-> 107, two |-> 57],
       [state |-> {},        keyval |-> "F10",   one |-> 107, two |-> 59],
       [state |-> {},        keyval |-> "F11",   one |-> 70,  two |-> 49],
       [state |-> {},        keyval |-> "F12",   one |-> 70,  two |-> 50] >>

gdk_keyval_to_unicode(keyval) == keyval.uc

\* the code points of the model are below 0x800
utf_char2bytes(c) ==
    IF c < 128 THEN <<c>>
    ELSE <<192 + (c \div 64), 128 + (c % 64)>>

\* keyval_to_string: the byte of a key pressed with Control, 0x20 <= uc < 0x80
ctrl_byte_plain(uc) == uc
ctrl_byte(uc) ==
    IF uc >= 64 THEN uc % 32
    ELSE IF uc = 56 THEN KEY_BS
    ELSE uc

keyval_to_string(keyval, state) ==
    LET uc == gdk_keyval_to_unicode(keyval) IN
    IF keyval.sym \in {"Tab", "KP_Tab", "ISO_Left_Tab"} THEN <<KEY_TAB>>
    ELSE IF keyval.sym = "Linefeed" THEN <<KEY_NL>>
    ELSE IF keyval.sym \in {"Return", "ISO_Enter", "3270_Enter"} THEN <<KEY_CR>>
    ELSE IF keyval.sym = "Escape" THEN <<KEY_ESC>>
    ELSE IF keyval.sym = "BackSpace" THEN <<KEY_BS>>
    ELSE IF uc = 0 THEN <<>>
    ELSE IF "CONTROL" \in state /\ uc >= 32 /\ uc < 128 THEN <<ctrl_byte(uc)>>
    ELSE utf_char2bytes(uc)

\* the for loop of map_keypress over special_keys[i ..]: the triplet of the first
\* entry for the key, <<>> when there is none
RECURSIVE special_scan(_, _, _)
special_scan(i, sym, state) ==
    IF i > Len(special_keys) THEN <<>>
    ELSE IF special_keys[i].keyval = sym
            /\ (special_keys[i].state = {} \/ state \cap special_keys[i].state # {})
    THEN <<CSI, special_keys[i].one, special_keys[i].two>>
    ELSE special_scan(i + 1, sym, state)

\* the string map_keypress hands to map_handle_keys, <<>> for an unknown key event
keypress_string(keyval, state) ==
    LET string == keyval_to_string(keyval, state)
        left   == keyval.sym = "ISO_Left_Tab"
        sp     == special_scan(1, IF left THEN "Tab" ELSE keyval.sym,
                               IF left THEN state \cup {"SHIFT"} ELSE state)
    IN  IF Len(string) <= 1 /\ sp # <<>> THEN sp ELSE string

\* the keys with a GDK symbol of their own and the characters the model types
KeySyms ==
    {"Tab", "KP_Tab", "ISO_Left_Tab", "Linefeed", "Return", "ISO_Enter", "3270_Enter",
     "Escape", "BackSpace", "Insert", "Up", "Down", "Left", "Right",
     "F1", "F2", "F3", "F4", "F5", "F6", "F7", "F8", "F9", "F10", "F11", "F12"}

\* 8 @ A ] ^ ` a z { and a-umlaut
KeyChars == {56, 64, 65, 93, 94, 96, 97, 122, 123, 228}

Keyvals ==
    { [sym |-> s, uc |-> 0] : s \in KeySyms } \cup { [sym |-> "char", uc |-> c] : c \in KeyChars }

KeyStates == SUBSET {"SHIFT", "CONTROL"}

\* the label texts the model maps: every label of keys[] and <C-x> for the characters
LabelTexts ==
    { keylabels[k].label : k \in 1..Len(keylabels) }
        \cup { <<60, 67, 45, c, 62>> : c \in KeyChars \ {228} }

map_keypress(keyval, state) ==
    LET string == keypress_string(keyval, state) IN
    /\ pc = "main"
    /\ kp' = [pressed |-> TRUE, keyval |-> keyval, state |-> state, string |-> string]
    /\ UNCHANGED cv
    /\ IF Len(string) = 0
       THEN UNCHANGED <<list, queue, resolved, timout_id, sources, mode, flags, pc, call,
                        match, sent, ret, ex>>
       ELSE map_handle_keys(string, TRUE, 0)

\* a key is pressed
key_press ==
    /\ pc = "main"
    /\ \E keyval \in Keyvals, state \in KeyStates : map_keypress(keyval, state)

\* the one rule of the table is defined by a label: :nmap label a
label_map ==
    /\ list = <<>>
    /\ \E label \in LabelTexts : map_insert(label, <<97>>, "n")

(***************************************************************************)
(* ex.c: the table of ex commands, the parser of a command line and        *)
(* ex_run_string.  The line is a NUL terminated string in memory: mem      *)
(* holds the line, its terminator and the bytes that happen to follow it;  *)
(* the cursor *input is an index into mem.                                 *)
(***************************************************************************)

\* static ExInfo commands[]: the #if 0 blocks are not compiled
commands ==
    << [name |-> <<98, 109, 97>>,
        code |-> "EX_BMA", func |-> "ex_bookmark", flags |-> {"RHS"}],   \* bma
       [name |-> <<98, 109, 114>>,
        code |-> "EX_BMR", func |-> "ex_bookmark", flags |-> {"RHS"}],   \* bmr
       [name |-> <<99, 109, 97, 112>>,
        code |-> "EX_CMAP", func |-> "ex_map", flags |-> {"LHS", "RHS"}],   \* cmap
       [name |-> <<99, 117, 110, 109, 97, 112>>,
        code |-> "EX_CUNMAP", func |-> "ex_unmap", flags |-> {"LHS"}],   \* cunmap
       [name |-> <<101, 118, 97, 108>>,
        code |-> "EX_EVAL", func |-> "ex_eval", flags |-> {"RHS"}],   \* eval
       [name |-> <<105, 109, 97, 112>>,
        code |-> "EX_IMAP", func |-> "ex_map", flags |-> {"LHS", "RHS"}],   \* imap
       [name |-> <<105, 117, 110, 109, 97, 112>>,
        code |-> "EX_IUNMAP", func |-> "ex_unmap", flags |-> {"LHS"}],   \* iunmap
       [name |-> <<110, 109, 97, 112>>,
        code |-> "EX_NMAP", func |-> "ex_map", flags |-> {"LHS", "RHS"}],   \* nmap
       [name |-> <<110, 117, 110, 109, 97, 112>>,
        code |-> "EX_NUNMAP", func |-> "ex_unmap", flags |-> {"LHS"}],   \* nunmap
       [name |-> <<111, 112, 101, 110>>,
        code |-> "EX_OPEN", func |-> "ex_open", flags |-> {"RHS"}],   \* open
       [name |-> <<113, 117, 105, 116>>,
        code |-> "EX_QUIT", func |-> "ex_quit", flags |-> {}],   \* quit
       [name |-> <<113, 99, 108, 101, 97, 114>>,
        code |-> "EX_QCLEAR", func |-> "ex_queue", flags |-> {"RHS"}],   \* qclear
       [name |-> <<113, 112, 111, 112>>,
        code |-> "EX_QPOP", func |-> "ex_queue", flags |-> {}],   \* qpop
       [name |-> <<113, 112, 117, 115, 104>>,
        code |-> "EX_QPUSH", func |-> "ex_queue", flags |-> {"RHS"}],   \* qpush
       [name |-> <<113, 117, 110, 115, 104, 105, 102, 116>>,
        code |-> "EX_QUNSHIFT", func |-> "ex_queue", flags |-> {"RHS"}],   \* qunshift
       [name |-> <<115, 97, 118, 101>>,
        code |-> "EX_SAVE", func |-> "ex_save", flags |-> {"RHS"}],   \* save
       [name |-> <<115, 101, 116>>,
        code |-> "EX_SET", func |-> "ex_set", flags |-> {"RHS"}],   \* set
       [name |-> <<115, 104, 101, 108, 108, 99, 109, 100>>,
        code |-> "EX_SHELLCMD", func |-> "ex_shellcmd", flags |-> {"RHS"}],   \* shellcmd
       [name |-> <<115, 104, 111, 114, 116, 99, 117, 116, 45, 97, 100, 100>>,
        code |-> "EX_SCA", func |-> "ex_shortcut", flags |-> {"RHS"}],   \* shortcut-add
       [name |-> <<115, 104, 111, 114, 116, 99, 117, 116, 45, 100, 101, 102, 97, 117, 108, 116>>,
        code |-> "EX_SCD", func |-> "ex_shortcut", flags |-> {"RHS"}],   \* shortcut-default
       [name |-> <<115, 104, 111, 114, 116, 99, 117, 116, 45, 114, 101, 109, 111, 118, 101>>,
        code |-> "EX_SCR", func |-> "ex_shortcut", flags |-> {"RHS"}],   \* shortcut-remove
       [name |-> <<116, 97, 98, 111, 112, 101, 110>>,
        code |-> "EX_TABOPEN", func |-> "ex_open", flags |-> {"RHS"}] >>   \* tabopen

\* **input with the cursor at p; past the bytes the model keeps a NUL is read
Byte(mem, p) == IF p >= 1 /\ p <= Len(mem) THEN mem[p] ELSE 0

\* GString->str seen as a C string: the bytes before the first NUL
RECURSIVE cstr(_)
cstr(g) == IF g = <<>> \/ Head(g) = 0 THEN <<>> ELSE <<Head(g)>> \o cstr(Tail(g))

isdigit(c) == c >= 48 /\ c <= 57

RECURSIVE skip_whitespace(_, _)
skip_whitespace(mem, p) ==
    IF Byte(mem, p) = 32 THEN skip_whitespace(mem, p + 1) ELSE p

\* parse: remove leading whitespace and :
RECURSIVE skip_colons(_, _)
skip_colons(mem, p) ==
    IF Byte(mem, p) = 58 \/ Byte(mem, p) = 32 THEN skip_colons(mem, p + 1) ELSE p

\* parse_count without a digit at the cursor: arg->count = 0
absent_count_keep(count) == count
absent_count(count) == 0

\* the do-while of parse_count: arg->count is the value the loop starts from
RECURSIVE count_digits(_, _, _)
count_digits(mem, p, count) ==
    LET c == count * 10 + (Byte(mem, p) - 48)
    IN  IF isdigit(Byte(mem, p + 1))
        THEN count_digits(mem, p + 1, c)
        ELSE [pos |-> p + 1, count |-> c]

parse_count(mem, p, count) ==
    IF ~isdigit(Byte(mem, p))
    THEN [pos |-> p, count |-> absent_count(count)]
    ELSE count_digits(mem, p, count)

\* commands[i].name[k - 1], the terminator of the name included
name_byte(name, k) == IF k <= Len(name) THEN name[k] ELSE 0

\* !strncmp(commands[i].name, cmd, n) where cmd[0 .. n - 1] holds no NUL
strncmp_name(name, cmd, n) == Len(name) >= n /\ \A k \in 1..n : name[k] = cmd[k]

\* if (!matches) first = i
first_match_last(matches, first, i) == i
first_match(matches, first, i) == IF matches = 0 THEN i ELSE first

\* the for loop of parse_command_name over commands[i ..] for the name cmd typed so far
RECURSIVE name_scan(_, _, _, _)
name_scan(i, first, matches, cmd) ==
    LET len == Len(cmd) IN
    IF i > Len(commands)
    THEN [first |-> first, matches |-> matches]
    ELSE IF len > 1 /\ ~strncmp_name(commands[i].name, cmd, len - 1)
    THEN [first |-> first, matches |-> matches]
    ELSE IF name_byte(commands[i].name, len) = cmd[len]
    THEN name_scan(i + 1, first_match(matches, first, i), matches + 1, cmd)
    ELSE name_scan(i + 1, first, matches, cmd)

\* the do-while of parse_command_name
RECURSIVE name_loop(_, _, _, _)
name_loop(mem, p, cmd0, first) ==
    LET cmd == Append(cmd0, Byte(mem, p))
        r   == name_scan(first, first, 0, cmd)
    IN  IF r.matches > 0 /\ Byte(mem, p + 1) # 0 /\ Byte(mem, p + 1) # 32
        THEN name_loop(mem, p + 1, cmd, r.first)
        ELSE [ok |-> r.matches > 0, pos |-> p + 1, idx |-> r.first]

parse_command_name(mem, p) == name_loop(mem, p, <<>>, 1)

\* what parse_lhs and parse_rhs append for the quote char \ followed by c; the test
\* if (!*input) looks at the cursor, which is never NULL, so c may be the terminator
escaped_plain(c) == <<c>>
escaped(c) == IF c = 32 THEN <<32>> ELSE <<92, c>>

\* the while loop of parse_lhs
RECURSIVE lhs_loop(_, _, _)
lhs_loop(mem, p, lhs) ==
    IF Byte(mem, p) = 0 \/ Byte(mem, p) = 32
    THEN [pos |-> p, str |-> lhs]
    ELSE IF Byte(mem, p) = 92
    THEN lhs_loop(mem, p + 2, lhs \o escaped(Byte(mem, p + 1)))
    ELSE lhs_loop(mem, p + 1, Append(lhs, Byte(mem, p)))

parse_lhs(mem, p, lhs) ==
    IF Byte(mem, p) = 0 THEN [pos |-> p, str |-> lhs] ELSE lhs_loop(mem, p, lhs)

\* the while loop of parse_rhs
RECURSIVE rhs_loop(_, _, _)
rhs_loop(mem, p, rhs) ==
    IF Byte(mem, p) = 0 \/ Byte(mem, p) = 10 \/ Byte(mem, p) = 124
    THEN [pos |-> p, str |-> rhs]
    ELSE IF Byte(mem, p) = 92
    THEN rhs_loop(mem, p + 2, rhs \o escaped(Byte(mem, p + 1)))
    ELSE rhs_loop(mem, p + 1, Append(rhs, Byte(mem, p)))

parse_rhs(mem, p, rhs) ==
    IF Byte(mem, p) = 0 THEN [pos |-> p, str |-> rhs] ELSE rhs_loop(mem, p, rhs)

\* parse: skip the terminating | or newline of the command
skip_separator_none(mem, p) == p
skip_separator(mem, p) == IF Byte(mem, p) # 0 THEN p + 1 ELSE p

\* parse: the ExArg is the one of the command before, lhs and rhs are truncated,
\* count is what parse_count makes of it
parse(mem, p0, arg) ==
    LET p1  == skip_colons(mem, p0)
        c   == parse_count(mem, p1, arg.count)
        p2  == skip_whitespace(mem, c.pos)
        n   == parse_command_name(mem, p2)
        cmd == commands[n.idx]
        p3  == skip_whitespace(mem, n.pos)
        l   == IF "LHS" \in cmd.flags THEN parse_lhs(mem, p3, <<>>)
               ELSE [pos |-> p3, str |-> <<>>]
        p4  == skip_whitespace(mem, l.pos)
        r   == IF "RHS" \in cmd.flags THEN parse_rhs(mem, p4, <<>>)
               ELSE [pos |-> p4, str |-> <<>>]
        p5  == skip_separator(mem, r.pos)
    IN  IF Byte(mem, p0) = 0
        THEN [ok |-> FALSE, pos |-> p0, arg |-> arg]
        ELSE IF ~n.ok
        THEN [ok |-> FALSE, pos |-> n.pos,
              arg |-> [arg EXCEPT !.count = c.count, !.lhs = <<>>, !.rhs = <<>>]]
        ELSE [ok |-> TRUE, pos |-> p5,
              arg |-> [count |-> c.count, idx |-> n.idx, code |-> cmd.code,
                       lhs |-> l.str, rhs |-> r.str]]

\* the mode char ex_map and ex_unmap pass on
map_mode(code) ==
    IF code \in {"EX_NMAP", "EX_NUNMAP"} THEN "n"
    ELSE IF code \in {"EX_CMAP", "EX_CUNMAP"} THEN "c"
    ELSE "i"

\* execute: what the function of the command can return; the functions outside of
\* ex.c and map.c return what they like
execute_results(arg) ==
    LET func == commands[arg.idx].func IN
    IF func = "ex_map" THEN {Len(arg.lhs) > 0 /\ Len(arg.rhs) > 0}
    ELSE IF func = "ex_unmap" THEN {Len(arg.lhs) > 0}
    ELSE IF func = "ex_quit" THEN {TRUE}
    ELSE IF func \in {"ex_eval", "ex_set"} /\ Len(arg.rhs) = 0 THEN {FALSE}
    ELSE IF func = "ex_shellcmd" /\ cstr(arg.rhs) = <<>> THEN {FALSE}
    ELSE IF arg.code = "EX_SCA" /\ (Len(arg.rhs) = 0 \/ \A k \in 1..Len(cstr(arg.rhs)) : arg.rhs[k] # 61)
    THEN {FALSE}
    ELSE BOOLEAN

\* execute: the table after the function of the command has run
execute_list(arg, l) ==
    LET func == commands[arg.idx].func
        lhs  == cstr(arg.lhs)
        i    == map_delete_find(l, 1, convert_keys(lhs), map_mode(arg.code))
    IN  IF func = "ex_map" /\ Len(arg.lhs) > 0 /\ Len(arg.rhs) > 0
        THEN map_insert_list(l, lhs, cstr(arg.rhs), map_mode(arg.code))
        ELSE IF func = "ex_unmap" /\ Len(arg.lhs) > 0 /\ i > 0
        THEN delete_link(l, i)
        ELSE l

\* the ExArg of g_new0 with its two empty GStrings
NoArg == [count |-> 0, idx |-> 1, code |-> "EX_BMA", lhs |-> <<>>, rhs |-> <<>>]

\* no ex_run_string is running
ExIdle == [pc |-> "idle", mem |-> <<>>, end |-> 0, pos |-> 0, from |-> 0, arg |-> NoArg,
           calls |-> <<>>, perr |-> FALSE, ret |-> "none"]

\* the bytes of the arguments the model writes after a command name
ArgChars == {97, 32, 92, 124, 10}

ArgTexts == UNION { [1..n -> ArgChars] : n \in 0..MaxArgLen }

\* a command with a rhs and one with a lhs, each followed by a text, alone and
\* before a second command
ArgLines ==
    { c \o <<32>> \o t \o tail :
        c \in {<<111, 112, 101, 110>>, <<110, 117, 110, 109, 97, 112>>},   \* open, nunmap
        t \in ArgTexts,
        tail \in {<<>>, <<124, 115, 101, 116, 32, 98>>} }                  \* |set b

\* every name of the table, abbreviated and in full, alone, before an argument and
\* directly before a separator and a second command
NameLines ==
    UNION { { SubSeq(commands[i].name, 1, n) \o tail :
                n \in 1..Len(commands[i].name),
                tail \in {<<>>, <<32, 97>>, <<124, 111, 112, 101, 110, 32, 120>>} } :   \* |open x
            i \in 1..Len(commands) }

\* commands with and without a count, an unknown command, commands of the table
Segs ==
    { <<50, 111, 112, 101, 110, 32, 97>>,   \* 2open a
      <<51, 111, 112, 101, 110, 32, 98>>,   \* 3open b
      <<111, 112, 101, 110, 32>>,   \* open and a space
      <<48, 111, 112, 101, 110, 32>>,   \* 0open and a space
      <<120>>,   \* x
      <<113, 117, 105, 116, 32>>,   \* quit and a space
      <<110, 109, 97, 112, 32, 97, 32, 98>> }   \* nmap a b

\* the lines of n segments with a | between them
RECURSIVE Piped(_)
Piped(n) ==
    IF n = 1 THEN Segs
    ELSE { l \o <<124>> \o s : l \in Piped(n - 1), s \in Segs }

SegLines == UNION { Piped(n) : n \in 1..MaxSegs }

\* the lines the model runs
ExLines == NameLines \cup ArgLines \cup SegLines

\* what the memory after the terminator of the line may hold
Junk == {<<>>, <<97>>}

\* if (!parse(&input, arg) ...: where ex_run_string goes on after parse
after_parse_go(ok) == "parsed"
after_parse(ok) == IF ok THEN "parsed" ELSE "done"

\* ... || !execute(arg)): where ex_run_string goes on after execute
after_execute_go(ok) == "loop"
after_execute(ok) == IF ok THEN "loop" ELSE "done"

\* entry of ex_run_string up to the while
ex_run_string(line, junk) ==
    /\ pc = "main"
    /\ ex.pc = "idle"
    /\ ex' = [ExIdle EXCEPT !.pc = "loop", !.mem = line \o <<0>> \o junk,
                            !.end = Len(line) + 1, !.pos = 1]
    /\ UNCHANGED <<list, queue, resolved, timout_id, sources, mode, flags, pc, call, match,
                   sent, ret, kp, cv>>

\* input_activate: the user typed <nl> or <cr> into the inputbox, the text
\* after the prompt : is run
input_activate ==
    /\ ex.pc = "idle"
    /\ \E line \in ExLines, junk \in Junk : ex_run_string(line, junk)

\* while (input && *input) with parse(&input, arg)
ex_parse ==
    /\ ex.pc = "loop"
    /\ Byte(ex.mem, ex.pos) # 0
    /\ LET r == parse(ex.mem, ex.pos, ex.arg) IN
        ex' = [ex EXCEPT !.pc = after_parse(r.ok), !.from = ex.pos, !.pos = r.pos,
                         !.arg = r.arg, !.perr = ~r.ok,
                         !.ret = IF after_parse(r.ok) = "done" THEN "false" ELSE "none"]
    /\ UNCHANGED <<list, queue, resolved, timout_id, sources, mode, flags, pc, call, match,
                   sent, ret, kp, cv>>

\* execute(arg) of the command parse has filled in
ex_execute ==
    /\ ex.pc = "parsed"
    /\ Len(execute_list(ex.arg, list)) <= MaxMaps
    /\ list' = execute_list(ex.arg, list)
    /\ \E ok \in execute_results(ex.arg) :
        ex' = [ex EXCEPT !.pc = after_execute(ok),
                         !.calls = Append(@, [idx |-> ex.arg.idx, code |-> ex.arg.code,
                                              count |-> ex.arg.count, lhs |-> ex.arg.lhs,
                                              rhs |-> ex.arg.rhs, from |-> ex.from,
                                              ok |-> ok]),
                         !.ret = IF after_execute(ok) = "done" THEN "false" ELSE "none"]
    /\ UNCHANGED <<queue, resolved, timout_id, sources, mode, flags, pc, call, match,
                   sent, ret, kp, cv>>

\* the while ends at the terminator: return true
ex_end ==
    /\ ex.pc = "loop"
    /\ Byte(ex.mem, ex.pos) = 0
    /\ ex' = [ex EXCEPT !.pc = "done", !.ret = "true"]
    /\ UNCHANGED <<list, queue, resolved, timout_id, sources, mode, flags, pc, call, match,
                   sent, ret, kp, cv>>

\* ex_run_string has returned to its caller
ex_return ==
    /\ ex.pc = "done"
    /\ ex' = ExIdle
    /\ UNCHANGED <<list, queue, resolved, timout_id, sources, mode, flags, pc, call, match,
                   sent, ret, kp, cv>>

Init ==
    /\ list = <<>>
    /\ queue = <<>>
    /\ resolved = 0
    /\ timout_id = 0
    /\ sources = {}
    /\ mode = "n"
    /\ flags = [m \in Modes |-> FALSE]
    /\ pc = "main"
    /\ call = NoCall
    /\ match = <<>>
    /\ sent = <<>>
    /\ ret = "none"
    /\ ex = ExIdle
    /\ kp = NoKey
    /\ cv = NoString

Next ==
    \/ \E r \in RuleSet : map_insert(r.in, r.mapped, r.mode)
    \/ \E r \in RuleSet : map_delete(r.in, r.mode)
    \/ key_batch
    \/ do_timeout
    \/ send_key
    \/ queue_drained
    \/ resolve
    \/ return_to_main

Spec == Init /\ [][Next]_vars

\* the running function goes on running: every step of map_handle_keys that can be
\* taken is taken
FairSpec ==
    /\ Spec
    /\ WF_vars(send_key)
    /\ WF_vars(queue_drained)
    /\ WF_vars(resolve)
    /\ WF_vars(return_to_main)

\* the ex command line: lines are run one after the other, the resolver is idle
ExNext ==
    \/ input_activate
    \/ ex_parse
    \/ ex_execute
    \/ ex_end
    \/ ex_return

ExSpec == Init /\ [][ExNext]_vars

\* send_key with a consumer that stays in its mode and leaves remapping on
plain_send_key == send_key /\ UNCHANGED <<mode, flags>>

\* send_key with a consumer for which b starts a command of two keys: it sets
\* FLAG_NOMAP of the mode it leaves active when it got b, and only then
prefix_send_key == send_key /\ flags'[mode'] = (queue[1] = 98)

\* the keyboard: one rule is defined by a label, keys are pressed one by one
KeyNext ==
    \/ label_map
    \/ key_press
    \/ plain_send_key
    \/ queue_drained
    \/ resolve
    \/ return_to_main

KeySpec == Init /\ [][KeyNext]_vars

\* the resolver with the rules of SpliceRules and a consumer that stays in its mode
SpliceNext ==
    \/ \E r \in SpliceRules : map_insert(r.in, r.mapped, r.mode)
    \/ long_batch
    \/ do_timeout
    \/ plain_send_key
    \/ queue_drained
    \/ resolve
    \/ return_to_main

SpliceSpec == Init /\ [][SpliceNext]_vars

\* the resolver with the rules of SpliceRules and the consumer that sets FLAG_NOMAP
\* after b
NomapNext ==
    \/ \E r \in SpliceRules : map_insert(r.in, r.mapped, r.mode)
    \/ key_batch
    \/ do_timeout
    \/ prefix_send_key
    \/ queue_drained
    \/ resolve
    \/ return_to_main

NomapSpec == Init /\ [][NomapNext]_vars

\* strings of keys are run one after the other, the table is empty
StrNext ==
    \/ string_batch
    \/ plain_send_key
    \/ queue_drained
    \/ resolve
    \/ return_to_main

StrSpec == Init /\ [][StrNext]_vars

(***************************************************************************)
(* Properties                                                              *)
(***************************************************************************)

\* the rules of a table
Rules(l) == { l[i] : i \in DOMAIN l }

IsPrefix(s, t) == Len(s) <= Len(t) /\ SubSeq(t, 1, Len(s)) = s

IsProperPrefix(s, t) == Len(s) < Len(t) /\ SubSeq(t, 1, Len(s)) = s

\* the bytes of a sequence of units, in order
RECURSIVE Flat(_)
Flat(units) == IF units = <<>> THEN <<>> ELSE Head(units) \o Flat(Tail(units))

\* the rules of mode md whose input is a prefix of q, and those q is a proper prefix of
Complete(l, md, q) == { r \in Rules(l) : r.mode = md /\ IsPrefix(r.in, q) }
Incomplete(l, md, q) == { r \in Rules(l) : r.mode = md /\ IsProperPrefix(q, r.in) }

\* the newest rule of the table with the mode and input of r
Newest(l, r) ==
    l[CHOOSE i \in DOMAIN l :
        /\ l[i].mode = r.mode /\ l[i].in = r.in
        /\ \A j \in 1..(i - 1) : ~(l[j].mode = r.mode /\ l[j].in = r.in)]

\* map_handle_keys is at the step that tries the maps
AtResolve == pc = "loop" /\ resolved <= 0 /\ qlen > 0

\* remapping is tried at that step
Remaps == call.use_map /\ ~flags[mode]

\* map_handle_keys has returned from a call that was given the bytes of keys, with
\* the queue empty, use_map set and FLAG_NOMAP of the mode clear
FedFromIdle(keys) ==
    /\ pc = "ret"
    /\ call.op = "map_handle_keys"
    /\ call.keys = keys
    /\ call.q0 = 0
    /\ call.use_map
    /\ ~call.nomap0

\* r is a rule of the table whose input was fed, alone, to the call that is running
\* or has returned, in the mode of r
FedRule(r) ==
    /\ pc \in {"loop", "ret", "fault"}
    /\ call.op = "map_handle_keys"
    /\ call.keys = r.in
    /\ call.q0 = 0
    /\ call.use_map
    /\ ~call.nomap0
    /\ call.mode0 = r.mode

\* r is the rule the table applies to its own input: it fits the queue, no newer
\* rule has its mode and input, and its input is no proper prefix of another input
Effective(r) ==
    /\ r.inlen > 0
    /\ r.inlen <= MAP_QUEUE_SIZE
    /\ Newest(list, r) = r
    /\ Incomplete(list, r.mode, r.in) = {}

C2_AmbiguousWaitsTimeoutApplies ==
    [][ (AtResolve /\ Remaps) =>
          /\ (~call.timeout /\ Incomplete(list, mode, queue) # {}) =>
                (pc' = "ret" /\ ret' = "MAP_AMBIGUOUS" /\ queue' = queue /\ sent' = sent
                 /\ resolved' = resolved)
          /\ (call.timeout /\ Complete(list, mode, queue) # {}) =>
                \E r \in Complete(list, mode, queue) :
                    /\ \A o \in Complete(list, mode, queue) : o.inlen <= r.inlen
                    /\ match' = <<r>>
                    /\ pc' # "ret"
                    /\ queue' = r.mapped \o SubSeq(queue, r.inlen + 1, qlen)
      ]_vars

\* a timeout pass has applied the rule aa -> a to a queue that was waiting for more
\* keys of a longer rule
C2_Witness ==
    /\ pc = "loop"
    /\ call.timeout
    /\ call.q0 = 2
    /\ match # <<>>
    /\ match[1].inlen = 2
    /\ sent = <<>>
    /\ queue = match[1].mapped
    /\ \E r \in Rules(list) : r.mode = mode /\ r.inlen > 2

\* C3: the rule applied is one with the longest input among the rules of the active
\* mode whose input is a prefix of the queue, wherever it stands in the table
C3_LongestMatch ==
    [][ (/\ AtResolve /\ Remaps
         /\ (call.timeout \/ Incomplete(list, mode, queue) = {})
         /\ Complete(list, mode, queue) # {}) =>
          /\ match' # <<>>
          /\ match'[1] \in Complete(list, mode, queue)
          /\ \A o \in Complete(list, mode, queue) : o.inlen <= match'[1].inlen
          /\ queue' = match'[1].mapped \o SubSeq(queue, match'[1].inlen + 1, qlen)
      ]_vars

\* the table holds a -> b in front of aa -> a; aa was fed and a forwarded once
C3_Witness ==
    /\ FedFromIdle(<<97, 97>>)
    /\ Len(list) = 2
    /\ list[1].in = <<97>> /\ list[1].mode = call.mode0
    /\ list[2].in = <<97, 97>> /\ list[2].mode = call.mode0
    /\ sent = <<list[2].mapped>>
    /\ ret = "MAP_DONE"

\* C4: the queue never holds more than MAP_QUEUE_SIZE bytes and no write lands
\* behind the end of map.queue
C4_QueueWithinCapacity ==
    /\ qlen <= MAP_QUEUE_SIZE
    /\ pc # "fault"

\* C5: every invocation of map_handle_keys ends, with the queue drained or with
\* MAP_AMBIGUOUS (an invocation that writes behind map.queue has left the claim's
\* ground and is not counted as one that fails to end)
C5_InvocationEnds ==
    (pc = "loop") ~> (pc = "ret" \/ pc = "fault")

\* C6: at most one timeout source is attached, and it is the one map.timout_id
\* names: a call with keys leaves exactly the source it adds, a timeout pass adds
\* none, and the source that fired is gone when do_timeout has returned
C6_OneTimer ==
    /\ [](/\ Cardinality(sources) <= 1
          /\ sources \subseteq {timout_id}
          /\ (call.op = "map_handle_keys" /\ ~call.timeout) => sources = {timout_id}
          /\ (call.op = "map_handle_keys" /\ call.timeout) => sources = {call.source})
    /\ [][ /\ (pc = "main" /\ pc' = "loop" /\ ~call'.timeout) =>
                (timout_id' \notin (sources \ {timout_id}) /\ sources' = {timout_id'})
           /\ (pc = "main" /\ pc' = "loop" /\ call'.timeout) =>
                (sources' = sources /\ timout_id' = timout_id)
           /\ (pc = "ret" /\ call.timeout) => sources' = {}
         ]_vars

\* a call with keys found a timer armed by an earlier call and has armed its own
C6_Witness ==
    /\ pc = "loop"
    /\ call.op = "map_handle_keys"
    /\ ~call.timeout
    /\ call.q0 > 0
    /\ sources = {timout_id}

\* C7: a timeout pass never returns MAP_AMBIGUOUS; when it returns the queue is
\* empty and map.resolved is 0
C7_TimeoutDrains ==
    (pc = "ret" /\ call.op = "map_handle_keys" /\ call.timeout) =>
        /\ ret \in {"MAP_DONE", "MAP_NOMATCH"}
        /\ queue = <<>>
        /\ resolved = 0

\* a timeout pass has returned after it resolved a queue that waited for more keys
\* of a rule still in the table
C7_Witness ==
    /\ pc = "ret"
    /\ call.timeout
    /\ call.q0 > 1
    /\ sent # <<>>
    /\ \E r \in Rules(list) : r.mode = call.mode0 /\ r.inlen > call.q0

\* C8: map_insert puts the new rule in front of the table and leaves every stored
\* rule in place, and the rule applied is the first of the table, the one inserted
\* last, among the rules with its mode and input
C8_NewestDuplicateWins ==
    [][ /\ call'.op = "map_insert" =>
            /\ list' = <<Map(convert_keys(call'.keys), list'[1].mapped, call'.mode0)>> \o list
        /\ (/\ AtResolve /\ Remaps
            /\ (call.timeout \/ Incomplete(list, mode, queue) = {})) =>
            \A r \in Complete(list, mode, queue) :
                (\A o \in Complete(list, mode, queue) : o.inlen <= r.inlen) =>
                    /\ match' = <<Newest(list, r)>>
                    /\ queue' = Newest(list, r).mapped \o SubSeq(queue, r.inlen + 1, qlen)
      ]_vars

\* the table holds two rules of one mode and input with different outputs, and the
\* output of the newer one was forwarded
C8_Witness ==
    /\ pc = "ret"
    /\ call.op = "map_handle_keys"
    /\ Len(list) = 2
    /\ list[1].mode = list[2].mode
    /\ list[1].in = list[2].in
    /\ list[1].mapped # list[2].mapped
    /\ call.keys = list[1].in
    /\ call.mode0 = list[1].mode
    /\ Flat(sent) = list[1].mapped
    /\ ret = "MAP_DONE"

\* the indices of the rules of l with mode m and input lhs
Keyed(l, lhs, m) == { i \in DOMAIN l : l[i].mode = m /\ l[i].in = lhs }

\* C9: map_delete returns true and removes one rule, the newest with exactly that
\* mode and input, and leaves every other rule in place; it returns false and leaves
\* the table as it is when no rule has that mode and input
C9_DeleteExactlyOne ==
    [][ call'.op = "map_delete" =>
          LET k == Keyed(list, convert_keys(call'.keys), call'.mode0) IN
          IF k = {}
          THEN ret' = "false" /\ list' = list
          ELSE /\ ret' = "true"
               /\ Len(list') = Len(list) - 1
               /\ \E i \in k :
                    /\ \A j \in k : i <= j
                    /\ \A j \in 1..(i - 1) : list'[j] = list[j]
                    /\ \A j \in (i + 1)..Len(list) : list'[j - 1] = list[j]
      ]_vars

\* map_delete returned true and an older rule with the deleted mode and input is
\* still in the table
C9_Witness ==
    /\ pc = "ret"
    /\ call.op = "map_delete"
    /\ ret = "true"
    /\ Keyed(list, convert_keys(call.keys), call.mode0) # {}

\* C10: a rule of another mode than the active one is never applied and never
\* makes map_handle_keys wait; when no rule of the table has the active mode the
\* first byte of the queue becomes resolved as it is
C10_OtherModeRulesIgnored ==
    [][ AtResolve =>
          /\ match' # <<>> => match'[1].mode = mode
          /\ ret' = "MAP_AMBIGUOUS" => Incomplete(list, mode, queue) # {}
          /\ (\A r \in Rules(list) : r.mode # mode) =>
                (pc' = "loop" /\ queue' = queue /\ resolved' = 1 /\ match' = <<>>)
      ]_vars

\* in insert mode, with rules for a in normal mode only, the key a was forwarded
C10_Witness ==
    /\ FedFromIdle(<<97>>)
    /\ call.mode0 = "i"
    /\ mode = "i"
    /\ list # <<>>
    /\ \A r \in Rules(list) : r.mode = "n" /\ r.in = <<97>>
    /\ sent = << <<97>> >>
    /\ ret = "MAP_NOMATCH"

(***************************************************************************)
(* Properties of the ex command line                                       *)
(***************************************************************************)

\* the first cursor at or after p whose byte is not in S (S does not hold the NUL)
RunEnd(mem, p, S) ==
    CHOOSE q \in p..(Len(mem) + 1) :
        Byte(mem, q) \notin S /\ \A k \in p..(q - 1) : Byte(mem, k) \in S

\* the first cursor at or after p whose byte is the NUL or in stops
TokenEnd(mem, p, stops) ==
    CHOOSE q \in p..(Len(mem) + 1) :
        Byte(mem, q) \in stops \cup {0} /\ \A k \in p..(q - 1) : Byte(mem, k) \notin stops \cup {0}

Digits == 48..57

\* the command written at the cursor from: where its digit run and its name start
CountStart(mem, from) == RunEnd(mem, from, {58, 32})
NameStart(mem, from) == RunEnd(mem, RunEnd(mem, CountStart(mem, from), Digits), {32})

\* the digit run written directly before the name, <<>> when there is none
DigitRun(mem, from) ==
    SubSeq(mem, CountStart(mem, from), RunEnd(mem, CountStart(mem, from), Digits) - 1)

\* the name as typed: the bytes up to the next space or the end of the line
TypedName(mem, from) ==
    SubSeq(mem, NameStart(mem, from), TokenEnd(mem, NameStart(mem, from), {32}) - 1)

\* the entries of the table whose name starts with t
Candidates(t) == { i \in 1..Len(commands) : IsPrefix(t, commands[i].name) }

MinOf(S) == CHOOSE x \in S : \A y \in S : x <= y

\* parse has just run on the command written at ex.from
JustParsed == ex.pc = "parsed" \/ ex.perr

\* C11: a typed name that is a prefix of the names of several entries of the table
\* selects the first of these entries in table order
C11_FirstInTableOrder ==
    LET t == TypedName(ex.mem, ex.from) IN
    (JustParsed /\ Len(t) > 0 /\ Cardinality(Candidates(t)) > 1)
        => (ex.pc = "parsed" /\ ex.arg.idx = MinOf(Candidates(t)))

\* qu is typed, a prefix of quit and of qunshift with other q commands between them
C11_Witness ==
    /\ ex.pc = "parsed"
    /\ TypedName(ex.mem, ex.from) = <<113, 117>>
    /\ commands[ex.arg.idx].code = "EX_QUIT"

\* C12: for every prefix of a name, here the name as typed, the entries of the table
\* whose name starts with it lie next to each other: no entry without the prefix
\* sits between two that share it
C12_Grouped ==
    LET t == TypedName(ex.mem, ex.from) IN
    (JustParsed /\ Len(t) > 0)
        => \A i, j, k \in 1..Len(commands) :
               (i < j /\ j < k /\ i \in Candidates(t) /\ k \in Candidates(t))
                   => j \in Candidates(t)

\* C13: one operation is invoked per successfully parsed command, in line order; a
\* command whose name is not recognised fails to parse, and from then on no
\* operation is invoked and ex_run_string returns false
C13_OneOperationPerParsedCommand ==
    /\ [](/\ ex.pc = "parsed" => Candidates(TypedName(ex.mem, ex.from)) # {}
          /\ ex.perr => (ex.pc = "done" /\ ex.ret = "false")
          /\ \A i \in 1..Len(ex.calls) :
                /\ ex.calls[i].from <= ex.from
                /\ ex.calls[i].from = ex.from => (ex.pc # "parsed" /\ ~ex.perr)
                /\ \A j \in 1..Len(ex.calls) : i < j => ex.calls[i].from < ex.calls[j].from)
    /\ [][/\ ex.pc = "parsed" =>
               /\ Len(ex'.calls) = Len(ex.calls) + 1
               /\ SubSeq(ex'.calls, 1, Len(ex.calls)) = ex.calls
               /\ ex'.calls[Len(ex'.calls)].idx = ex.arg.idx
               /\ ex'.calls[Len(ex'.calls)].from = ex.from
          /\ ex.pc # "parsed" => (ex'.calls = ex.calls \/ ex'.pc = "idle")]_vars

\* a line of three commands whose second name is unknown: one operation was invoked
C13_Witness ==
    /\ ex.perr
    /\ ex.ret = "false"
    /\ Len(ex.calls) = 1
    /\ Byte(ex.mem, ex.pos) # 0

\* C14 as claimed: a failed operation does not abort the line, only a parse error or
\* the end of the line ends ex_run_string
C14_FailureDoesNotAbort ==
    ex.pc = "done" => (ex.perr \/ Byte(ex.mem, ex.pos) = 0)

\* C14: an operation that returns failure ends ex_run_string, which returns false:
\* no later command of the line is parsed or dispatched
C14_FailureAborts ==
    \A i \in 1..Len(ex.calls) :
        ~ex.calls[i].ok =>
            /\ i = Len(ex.calls)
            /\ ex.pc = "done"
            /\ ex.ret = "false"
            /\ ~ex.perr
            /\ ex.from = ex.calls[i].from

\* the first of two commands has failed and the second is still to come
C14_Witness ==
    /\ Len(ex.calls) = 1
    /\ ~ex.calls[1].ok
    /\ ex.pc = "done"
    /\ Byte(ex.mem, ex.pos) # 0
    /\ Candidates(TypedName(ex.mem, ex.pos)) # {}

\* the base-10 value of a run of digits
RECURSIVE Value(_)
Value(d) == IF d = <<>> THEN 0 ELSE Value(SubSeq(d, 1, Len(d) - 1)) * 10 + (d[Len(d)] - 48)

\* C15: the count of every dispatched command of a line is the base-10 value of the
\* digit run written directly before its own name, whatever the counts of the
\* commands before it
C15_CountOfOwnDigits ==
    \A i \in 1..Len(ex.calls) :
        DigitRun(ex.mem, ex.calls[i].from) # <<>>
            => ex.calls[i].count = Value(DigitRun(ex.mem, ex.calls[i].from))

\* C16 as claimed: the count of a command written without a count differs from the
\* count of a command written with the explicit count 0
C16_AbsentCountDistinct ==
    \A i, j \in 1..Len(ex.calls) :
        (DigitRun(ex.mem, ex.calls[i].from) = <<>> /\ DigitRun(ex.mem, ex.calls[j].from) = <<48>>)
            => ex.calls[i].count # ex.calls[j].count

\* C16: a command written without a count has the count 0, which is also the count
\* of the first command of a line written with the explicit count 0
C16_AbsentCountIsZero ==
    \A i \in 1..Len(ex.calls) :
        /\ DigitRun(ex.mem, ex.calls[i].from) = <<>> => ex.calls[i].count = 0
        /\ (i = 1 /\ DigitRun(ex.mem, ex.calls[i].from) = <<48>>) => ex.calls[i].count = 0

\* 0open and then a command without a count, after one with a count
C16_Witness ==
    /\ Len(ex.calls) = 3
    /\ DigitRun(ex.mem, ex.calls[1].from) = <<48>>
    /\ DigitRun(ex.mem, ex.calls[2].from) = <<50>>
    /\ DigitRun(ex.mem, ex.calls[3].from) = <<>>
    /\ ex.calls[1].count = 0
    /\ ex.calls[3].count = 0

\* the text written at the cursor p up to its first unescaped stop byte or the end
\* of the line (a backslash escapes the byte after it): the cursor of that end, and
\* whether the text ends with a backslash that nothing follows
RECURSIVE EscScan(_, _, _)
EscScan(mem, p, stops) ==
    IF Byte(mem, p) = 0 \/ Byte(mem, p) \in stops THEN [end |-> p, dangling |-> FALSE]
    ELSE IF Byte(mem, p) # 92 THEN EscScan(mem, p + 1, stops)
    ELSE IF Byte(mem, p + 1) = 0 THEN [end |-> p + 1, dangling |-> TRUE]
    ELSE EscScan(mem, p + 2, stops)

\* what the escapes of a text stand for: backslash space is a space, a backslash
\* before another byte stays with that byte, every other byte is itself
RECURSIVE Unesc(_)
Unesc(t) ==
    IF t = <<>> THEN <<>>
    ELSE IF t[1] = 92 /\ Len(t) >= 2
    THEN (IF t[2] = 32 THEN <<32>> ELSE <<92, t[2]>>) \o Unesc(SubSeq(t, 3, Len(t)))
    ELSE <<t[1]>> \o Unesc(Tail(t))

\* where the arguments of the command written at from start: behind the name and
\* the spaces after it
ArgStart(mem, from) ==
    RunEnd(mem, TokenEnd(mem, NameStart(mem, from), {32}), {32})

HasLhs(idx) == "LHS" \in commands[idx].flags
HasRhs(idx) == "RHS" \in commands[idx].flags

\* the lhs and the rhs as written for the command idx at from
LhsText(mem, from) == EscScan(mem, ArgStart(mem, from), {32})
LhsRaw(mem, from) == SubSeq(mem, ArgStart(mem, from), LhsText(mem, from).end - 1)
RhsStart(mem, from, idx) ==
    IF HasLhs(idx) THEN RunEnd(mem, LhsText(mem, from).end, {32}) ELSE ArgStart(mem, from)
RhsText(mem, from, idx) == EscScan(mem, RhsStart(mem, from, idx), {10, 124})
RhsRaw(mem, from, idx) ==
    SubSeq(mem, RhsStart(mem, from, idx), RhsText(mem, from, idx).end - 1)

\* C17: the lhs and the rhs of every dispatched command are the text as written with
\* backslash space turned into one space (which does not end the lhs), backslash X
\* kept as the two bytes, every other byte kept; the text does not end with a
\* backslash that nothing follows
C17_EscapesOfLhsAndRhs ==
    \A i \in 1..Len(ex.calls) :
        LET c == ex.calls[i] IN
        /\ (HasLhs(c.idx) /\ ~LhsText(ex.mem, c.from).dangling)
              => c.lhs = Unesc(LhsRaw(ex.mem, c.from))
        /\ (HasRhs(c.idx) /\ (HasLhs(c.idx) => ~LhsText(ex.mem, c.from).dangling)
                          /\ ~RhsText(ex.mem, c.from, c.idx).dangling)
              => c.rhs = Unesc(RhsRaw(ex.mem, c.from, c.idx))

\* nunmap \ a has the lhs " a": the escaped space is kept and does not end the lhs
C17_Witness ==
    /\ Len(ex.calls) = 1
    /\ ex.calls[1].code = "EX_NUNMAP"
    /\ LhsRaw(ex.mem, ex.calls[1].from) = <<92, 32, 97>>
    /\ ex.calls[1].lhs = <<32, 97>>

\* C18: when the lhs or the rhs as written ends with a backslash that nothing
\* follows, the result ends with that one backslash and the cursor stays at or
\* before the end of the line
C18_TrailingBackslash ==
    ex.pc = "parsed" =>
        /\ (HasLhs(ex.arg.idx) /\ LhsText(ex.mem, ex.from).dangling)
              => (cstr(ex.arg.lhs) = Unesc(LhsRaw(ex.mem, ex.from)) /\ ex.pos <= ex.end)
        /\ (HasRhs(ex.arg.idx) /\ ~HasLhs(ex.arg.idx) /\ RhsText(ex.mem, ex.from, ex.arg.idx).dangling)
              => (cstr(ex.arg.rhs) = Unesc(RhsRaw(ex.mem, ex.from, ex.arg.idx)) /\ ex.pos <= ex.end)

\* the commands that take a rhs and no lhs
RhsOnly == { i \in 1..Len(commands) : HasRhs(i) /\ ~HasLhs(i) }

\* the entries of these commands with the name t
NamedBy(t) == { i \in RhsOnly : commands[i].name = t }

\* the entries of the first command of the line and of the command after the first
\* unescaped | of its rhs, when both are written with their full names
FirstNamed == NamedBy(TypedName(ex.mem, 1))
SecondNamed(i1) == NamedBy(TypedName(ex.mem, RhsText(ex.mem, 1, i1).end + 1))

\* the line is c1 r1|c2 r2: two commands that take a rhs, written with their full
\* names, r1 up to its first unescaped | and with no unescaped newline, r2 up to the
\* end of the line; i1 and i2 are the entries of c1 and c2
TwoRhsCommands(mem, i1, i2) ==
    LET r1 == RhsText(mem, 1, i1)
        r2 == RhsText(mem, r1.end + 1, i2)
    IN  /\ TypedName(mem, 1) = commands[i1].name
        /\ ~r1.dangling
        /\ Byte(mem, r1.end) = 124
        /\ TypedName(mem, r1.end + 1) = commands[i2].name
        /\ ~r2.dangling
        /\ Byte(mem, r2.end) = 0

\* c1 was dispatched with the rhs r1 and then c2 with the rhs r2, c2 being read from
\* the byte after the separator
BothDispatched(i1, i2) ==
    LET r1 == RhsText(ex.mem, 1, i1) IN
    /\ Len(ex.calls) = 2
    /\ ex.calls[1].idx = i1
    /\ ex.calls[1].rhs = Unesc(RhsRaw(ex.mem, 1, i1))
    /\ ex.calls[2].idx = i2
    /\ ex.calls[2].from = r1.end + 1
    /\ ex.calls[2].rhs = Unesc(RhsRaw(ex.mem, r1.end + 1, i2))

NamedLabel(sym, state) ==
    IF sym = "Return" THEN 1
    ELSE IF sym = "Tab" /\ "SHIFT" \notin state THEN 2
    ELSE IF sym = "ISO_Left_Tab" \/ (sym = "Tab" /\ "SHIFT" \in state) THEN 3
    ELSE IF sym = "Escape" THEN 4
    ELSE IF sym = "Up" THEN 5
    ELSE IF sym = "Down" THEN 6
    ELSE IF sym = "Left" THEN 7
    ELSE IF sym = "Right" THEN 8
    ELSE IF sym = "F1" THEN 9
    ELSE IF sym = "F2" THEN 10
    ELSE IF sym = "F3" THEN 11
    ELSE IF sym = "F4" THEN 12
    ELSE IF sym = "F5" THEN 13
    ELSE IF sym = "F6" THEN 14
    ELSE IF sym = "F7" THEN 15
    ELSE IF sym = "F8" THEN 16
    ELSE IF sym = "F9" THEN 17
    ELSE IF sym = "F10" THEN 18
    ELSE IF sym = "F11" THEN 19
    ELSE IF sym = "F12" THEN 20
    ELSE 0

\* Ctrl and a printable character other than the space is pressed
CtrlChar == kp.pressed /\ "CONTROL" \in kp.state /\ kp.keyval.uc > 32 /\ kp.keyval.uc < 127

\* a named key that has a label is pressed, without Ctrl
NamedKey ==
    kp.pressed /\ "CONTROL" \notin kp.state /\ NamedLabel(kp.keyval.sym, kp.state) > 0

\* the label of the key pressed: <C-x> or the label of keys[]
LabelOfKey ==
    IF CtrlChar THEN <<60, 67, 45, kp.keyval.uc, 62>>
    ELSE keylabels[NamedLabel(kp.keyval.sym, kp.state)].label

\* the character of <C-x> is one convert_keys knows: A .. ] or a .. z
CtrlLetter == (kp.keyval.uc >= 65 /\ kp.keyval.uc <= 93) \/ (kp.keyval.uc >= 97 /\ kp.keyval.uc <= 122)

\* C20 as claimed: for Ctrl and any character written <C-x> and for the named keys,
\* convert_keys of the label is the string map_keypress makes of the key event
C20_LabelIsKeyString ==
    (CtrlChar \/ NamedKey) => convert_keys(LabelOfKey) = kp.string

\* C20: for Ctrl and a character x of A .. ] or a .. z written <C-x> and for the named
\* keys Tab, Shift-Tab, CR, Escape, the arrows and F1 .. F12, convert_keys of the
\* label is the string map_keypress makes of the key event, and a rule defined by
\* the label is the one found for the key; for any other character <C-x> stays the
\* five bytes as written, which is not what the key gives
C20_KnownLabelIsKeyString ==
    /\ ((CtrlChar /\ CtrlLetter) \/ NamedKey) =>
          /\ convert_keys(LabelOfKey) = kp.string
          /\ (match # <<>> /\ list # <<>> /\ list[1].in = convert_keys(LabelOfKey))
                => match[1].in = kp.string
          /\ (pc = "ret" /\ call.op = "map_handle_keys" /\ list # <<>>
                /\ list[1].in = convert_keys(LabelOfKey))
                => (ret = "MAP_DONE" /\ sent = <<list[1].mapped>>)
    /\ (CtrlChar /\ ~CtrlLetter) =>
          /\ convert_keys(LabelOfKey) = LabelOfKey
          /\ Len(kp.string) = 1

\* Ctrl and ] is pressed with the rule of <C-]> in the table: the rule is applied
C20_Witness ==
    /\ CtrlChar
    /\ kp.keyval.uc = 93
    /\ kp.string = <<29>>
    /\ list # <<>>
    /\ list[1].in = <<29>>
    /\ pc = "ret"
    /\ ret = "MAP_DONE"

(***************************************************************************)
(* Properties of convert_keys                                              *)
(***************************************************************************)

\* the labels convert_keys knows with the raw bytes of each: the labels of keys[] and
\* <C-x> for x of A .. ] and a .. z
KnownLabels ==
    { <<keylabels[k].label, keylabels[k].ch>> : k \in 1..Len(keylabels) }
        \cup { << <<60, 67, 45, x, 62>>, <<x % 32>> >> : x \in (65..93) \cup (97..122) }

\* the known labels written at the start of s
LabelsAt(s) == IF s = <<>> \/ s[1] # 60 THEN {} ELSE { l \in KnownLabels : IsPrefix(l[1], s) }

\* s with every known label written in it replaced by its raw bytes and every other
\* byte kept
RECURSIVE Expand(_)
Expand(s) ==
    IF s = <<>> THEN <<>>
    ELSE IF LabelsAt(s) # {}
    THEN LET l == CHOOSE l \in LabelsAt(s) : TRUE
         IN  l[2] \o Expand(SubSeq(s, Len(l[1]) + 1, Len(s)))
    ELSE <<s[1]>> \o Expand(Tail(s))

\* no known label is written anywhere in s
NoLabelIn(s) == \A p \in 1..Len(s) : LabelsAt(SubSeq(s, p, Len(s))) = {}

\* C21: convert_keys drops nothing: what it returns is the input with each known
\* label replaced by its raw bytes and every other byte, those of tokens that are
\* no known label included, copied as it is; the length it reports is the number
\* of bytes it wrote, so map_handle_keys is given all of them (looked at when the
\* call of map_handle_string has returned)
C21_NothingDropped ==
    (cv.handled /\ pc = "ret") =>
        /\ cv.str = Expand(cv.in)
        /\ NoLabelIn(cv.in) => cv.str = cv.in
        /\ cv.len = Len(cv.str)
        /\ call.keys = cv.str
        /\ Len(cv.str) <= MAP_QUEUE_SIZE => Flat(sent) = cv.str

\* <R<> was handled: a token cut by a second < and the token <> were forwarded as
\* they are written
C21_Witness ==
    /\ cv.handled
    /\ cv.in = <<60, 82, 60, 62>>
    /\ pc = "ret"
    /\ Flat(sent) = <<60, 82, 60, 62>>

(***************************************************************************)
(* More properties of the ex command line                                  *)
(***************************************************************************)

\* the name written at the cursor from: the bytes up to the next space or separator
\* or the end of the line
WrittenName(mem, from) ==
    SubSeq(mem, NameStart(mem, from), TokenEnd(mem, NameStart(mem, from), {32, 124, 10}) - 1)

\* the byte that follows the written name
AfterName(mem, from) == Byte(mem, TokenEnd(mem, NameStart(mem, from), {32, 124, 10}))

\* the entries of the table with the name t
Named(t) == { i \in 1..Len(commands) : commands[i].name = t }

\* C22: a command whose name is written in full and directly followed by the
\* separator | (quit|open x) is parsed as the first entry of the table that the name
\* fits, and the cursor is left behind the separator, on the next command
C22_NameBeforeSeparator ==
    LET t == WrittenName(ex.mem, ex.from) IN
    (JustParsed /\ Named(t) # {} /\ AfterName(ex.mem, ex.from) = 124)
        => /\ ex.pc = "parsed"
           /\ ex.arg.idx = MinOf(Candidates(t))
           /\ Byte(ex.mem, ex.pos - 1) = 124

(***************************************************************************)
(* More properties of the resolver                                         *)
(***************************************************************************)

\* the step replaces the matched chars at the head of the queue by a mapped string
Splices == AtResolve /\ match' # <<>> /\ pc' # "ret"

\* a unit is forwarded at the step, resolved bytes being left
Sends == pc = "loop" /\ resolved > 0

\* the replacement of a rule is in the queue and not all of its resolved bytes are
\* forwarded yet
SendsReplacement == Sends /\ match # <<>>

\* the replacement is written at the head, the bytes queued behind the matched
\* input follow it in their order, map.resolved is min(inlen, mappedlen)
SplicedIn ==
    LET m == match'[1] IN
    /\ m \in Complete(list, mode, queue)
    /\ queue' = m.mapped \o SubSeq(queue, m.inlen + 1, qlen)
    /\ resolved' = Min(m.inlen, m.mappedlen)
    /\ sent' = sent

C24_NomapForOneUnit ==
    [][ /\ (AtResolve /\ flags[mode]) =>
              /\ match' = <<>>
              /\ pc' = "loop"
              /\ resolved' = 1
              /\ queue' = queue /\ sent' = sent /\ flags' = flags
        /\ (Sends /\ flags[mode] /\ match = <<>>) =>
              /\ resolved = 1
              /\ queue' = SubSeq(queue, unit_len(queue) + 1, qlen)
              /\ Len(sent) < MaxSent => sent' = Append(sent, SubSeq(queue, 1, unit_len(queue)))
              /\ resolved' <= 0
              /\ flags'[mode'] = (queue[1] = 98)
              /\ \A m \in Modes \ {mode'} : ~flags'[m]
        /\ (AtResolve /\ ~flags[mode] /\ call.use_map) =>
              /\ (~call.timeout /\ Incomplete(list, mode, queue) # {}) => ret' = "MAP_AMBIGUOUS"
              /\ ((call.timeout \/ Incomplete(list, mode, queue) = {})
                     /\ Complete(list, mode, queue) # {}) => Splices
      ]_vars

\* aa was fed with a -> bc and c -> d in the table: after b the flag was set and c
\* forwarded as it is, the a behind it was mapped again
C24_Witness ==
    /\ pc = "ret"
    /\ call.keys = <<97, 97>>
    /\ call.q0 = 0
    /\ \E r \in Rules(list) : r.in = <<99>> /\ r.mode = mode
    /\ sent = << <<98>>, <<99>>, <<98>>, <<99>> >>

\* C25: when the consumer switches the mode while it handles a forwarded unit, only
\* that unit leaves the queue, and the steps that follow in the same invocation
\* apply and wait for rules of the new mode only: the rule applied is one of the
\* new mode, MAP_AMBIGUOUS is returned only for a rule of the new mode, and a queue
\* that fits no rule of the new mode has its first byte resolved as it is
C25_NewModeRulesAfterSwitch ==
    [][ /\ (Sends /\ mode' # mode) =>
              /\ queue' = SubSeq(queue, unit_len(queue) + 1, qlen)
              /\ resolved' = resolved - unit_len(queue)
              /\ pc' = "loop"
        /\ (AtResolve /\ mode # call.mode0) =>
              /\ match' # <<>> => match'[1] \in Complete(list, mode, queue)
              /\ ret' = "MAP_AMBIGUOUS" => Incomplete(list, mode, queue) # {}
              /\ (Remaps /\ (call.timeout \/ Incomplete(list, mode, queue) = {})
                     /\ Complete(list, mode, queue) # {}) => Splices
              /\ (Complete(list, mode, queue) = {} /\ Incomplete(list, mode, queue) = {}) =>
                    (queue' = queue /\ resolved' = 1 /\ match' = <<>>)
      ]_vars

\* aa was fed in normal mode with a -> b there and a -> <CR> in insert mode: b was
\* forwarded, the consumer switched to insert mode, the second a gave the newline
C25_Witness ==
    /\ pc = "ret"
    /\ call.keys = <<97, 97>>
    /\ call.q0 = 0
    /\ call.mode0 = "n"
    /\ sent = << <<98>>, <<10>> >>

\* no rule is tried by the running invocation: the table is empty or use_map is false
NoRule == call.op = "map_handle_keys" /\ (list = <<>> \/ ~call.use_map)

\* C26: an invocation that tries no rule forwards every byte of the queue once and
\* in the order of the queue: a step of it leaves the forwarded bytes followed by
\* the queued ones as they are, resolves one unit at a time, forwards CSI with the
\* two bytes behind it as one unit when 3 or more bytes are queued and as one byte
\* otherwise, and it returns with the queue empty, never with MAP_AMBIGUOUS
C26_UnmappedFifo ==
    /\ []((NoRule /\ pc = "ret") => (queue = <<>> /\ resolved = 0 /\ ret = "MAP_NOMATCH"))
    /\ [][ (NoRule /\ pc = "loop") =>
              /\ Len(sent) < MaxSent => Flat(sent') \o queue' = Flat(sent) \o queue
              /\ pc' # "fault"
              /\ AtResolve => (queue' = queue /\ resolved' = 1 /\ match' = <<>> /\ pc' = "loop")
              /\ Sends =>
                    LET n == IF queue[1] = CSI /\ qlen >= 3 THEN 3 ELSE 1 IN
                    /\ Len(sent) < MaxSent => sent' = Append(sent, SubSeq(queue, 1, n))
                    /\ queue' = SubSeq(queue, n + 1, qlen)
                    /\ resolved' <= 0
          ]_vars

\* a was waiting for the second a of aa -> a when CSI a CSI came with use_map false:
\* a and then the three bytes as one unit were forwarded
C26_Witness ==
    /\ pc = "ret"
    /\ NoRule
    /\ list # <<>>
    /\ call.q0 = 1
    /\ call.keys = <<CSI, 97, CSI>>
    /\ sent = << <<97>>, <<CSI, 97, CSI>> >>

\* the resolver is at rest with keys in the queue
Waiting == pc = "main" /\ queue # <<>>

\* the timeout source map.timout_id names is attached while the resolver is at rest
\* with keys in the queue
TimerArmedWhileWaiting == Waiting => (timout_id # 0 /\ sources = {timout_id})

\* C27: whenever the resolver is at rest with keys in the queue, the timeout source
\* map.timout_id names is attached; and the pass that runs when it fires comes to
\* its end with the queue empty
C27_TimerDrainsQueue ==
    /\ []TimerArmedWhileWaiting
    /\ ((pc = "loop" /\ call.timeout /\ call.q0 > 0) ~> (pc = "ret" /\ queue = <<>>))

\* C28: map.resolved is a cursor into the queue in every state, also after a special
\* key of 3 bytes was forwarded with fewer than 3 bytes resolved, and when
\* map_handle_keys returns: 0 <= map.resolved <= map.qlen
C28_ResolvedInQueue ==
    /\ 0 <= resolved
    /\ resolved <= qlen

\* the command that parse has filled in is an unmap command with a lhs that no rule
\* of its mode has as input
UnmapOfNoRule ==
    /\ ex.pc = "parsed"
    /\ commands[ex.arg.idx].func = "ex_unmap"
    /\ Len(ex.arg.lhs) > 0
    /\ Keyed(list, convert_keys(cstr(ex.arg.lhs)), map_mode(ex.arg.code)) = {}

\* C29: an unmap command whose lhs is the input of no rule of its mode leaves the
\* table as it is, its operation returns failure and ex_run_string returns false
C29_UnmapNotFoundFails ==
    [][ UnmapOfNoRule =>
          /\ list' = list
          /\ ~ex'.calls[Len(ex'.calls)].ok
          /\ ex'.pc = "done"
          /\ ex'.ret = "false"
      ]_vars

\* C30: a name of the table typed in full, ended by a space or by the end of the
\* line, is parsed as the entry of the table that has this name
C30_FullNameReachable ==
    LET t == TypedName(ex.mem, ex.from) IN
    (JustParsed /\ Named(t) # {})
        => (ex.pc = "parsed" /\ ex.arg.idx \in Named(t))

(***************************************************************************)
(* Properties of the timer id and of the value map_handle_keys returns     *)
(***************************************************************************)

\* map_handle_keys is entered with keys while map.timout_id is set: it calls
\* g_source_remove(map.timout_id)
CancelsTimer == pc = "main" /\ pc' = "loop" /\ ~call'.timeout /\ timout_id # 0

\* C31: whenever map_handle_keys cancels the timer map.timout_id names, that timer
\* is attached: it has not fired and been removed before
C31_CancelledTimerArmed ==
    [][ CancelsTimer => timout_id \in sources ]_vars

\* the resolution step at hand applies a rule: remapping is tried, no rule waits for
\* more keys, and a rule of the mode has its input at the head of the queue
AppliesRule ==
    /\ AtResolve /\ Remaps
    /\ (call.timeout \/ Incomplete(list, mode, queue) = {})
    /\ Complete(list, mode, queue) # {}

====
